---------------------------- MODULE Spec2Model ----------------------------
(***************************************************************************)
(* Model of pgdata/client.py: class PgDataClient.                          *)
(*                                                                         *)
(* One client object, driven by a single caller thread.  The caller may    *)
(* construct the object, call __enter__ / __exit__ and call accessors in   *)
(* any order.  An accessor call blocks inside _collect_results; each        *)
(* iteration of its `while True` loop is one step (one GET and the         *)
(* handling of the answer), because the answer is chosen by the server.    *)
(*                                                                         *)
(* Python values: a str is a sequence of atoms, '' is << >>, None is the   *)
(* reserved value None below.  Truthiness is modelled as Python defines    *)
(* it for these types (None and '' are falsy).                             *)
(***************************************************************************)
EXTENDS Naturals, Sequences, FiniteSets

VARIABLES
    ctor,           \* "none" | "ok" | "failed": outcome of __init__
    host,           \* self.host
    token,          \* self.token
    username,       \* self.username
    password,       \* self.password
    suppliedToken,  \* the token argument __init__ was called with
    call,           \* the most recent operation, its outcome, its login answer
    entries,        \* number of __enter__ calls so far
    loginPosts,     \* number of POSTs to <host>/api-token-auth/ so far
    phase,          \* "Idle" | "Fetching" | "Exhausted" | "Failed"
    uri,            \* local `uri` of _collect_results
    params,         \* local `params` of _collect_results
    results,        \* local `results` of _collect_results
    returned,       \* value returned by the accessor, NoReturn if none
    gets,           \* GET requests issued by the current accessor call
    pages           \* answers received by the current accessor call

vars == <<ctor, host, token, username, password, suppliedToken, call,
          entries, loginPosts, phase, uri, params, results, returned,
          gets, pages>>

session == <<ctor, host, token, username, password, suppliedToken>>
collection == <<phase, uri, params, results, returned, gets, pages>>

---------------------------------------------------------------------------
(* Bounds of the model *)

MaxGets == 3
MaxEntries == 2

---------------------------------------------------------------------------
(* Python values *)

None == <<"<NoneType>">>
EmptyStr == << >>
NoReturn == <<"<no return value>">>
IndexError == <<"<IndexError>">>

Truthy(x) == x # None /\ x # EmptyStr

\* str(x) as used by an f-string
Format(x) == IF x = None THEN <<"None">> ELSE x

---------------------------------------------------------------------------
(* Inputs of the caller *)

HostArgs == {<< >>, <<"/">>, <<"h">>, <<"h", "/">>, <<"h", "/", "/">>}
PortArgs == {<<"443">>}
TokenArgs == {None, EmptyStr, <<"T0">>}
UsernameArgs == {None, <<"u">>}
PasswordArgs == {None, <<"p">>}
FilterArgs == {None, EmptyStr, <<"x">>}

---------------------------------------------------------------------------
(* Answers of the server *)

\* the `results` of a page: no record, one record, two records
PageResults == {<< >>, <<"r1">>, <<"r1", "r2">>}
NextValues == {None, EmptyStr, <<"next">>}
NoResponse == [kind |-> "none"]

\* an answer to a GET: requests.get raised, or an HTTP response
PageResponses ==
    {[kind |-> "neterr"]}
    \cup [kind : {"http"}, status : {200, 500}, json : {TRUE},
          hasResults : {TRUE}, res : PageResults,
          hasNext : {TRUE}, next : NextValues]
    \cup [kind : {"http"}, status : {200}, json : {FALSE},
          hasResults : {FALSE}, res : {<< >>},
          hasNext : {FALSE}, next : {None}]
    \cup [kind : {"http"}, status : {200}, json : {TRUE},
          hasResults : {FALSE}, res : {<< >>},
          hasNext : {TRUE}, next : {None, <<"next">>}]
    \cup [kind : {"http"}, status : {200}, json : {TRUE},
          hasResults : {TRUE}, res : PageResults,
          hasNext : {FALSE}, next : {None}]

\* an answer to the login POST
LoginResponses ==
    {[kind |-> "neterr"]}
    \cup [kind : {"http"}, status : {200, 401}, json : {TRUE},
          hasToken : {TRUE}, tok : {None, EmptyStr, <<"T1">>}]
    \cup [kind : {"http"}, status : {200, 401}, json : {TRUE},
          hasToken : {FALSE}, tok : {None}]
    \cup [kind : {"http"}, status : {200, 401}, json : {FALSE},
          hasToken : {FALSE}, tok : {None}]

---------------------------------------------------------------------------
(* __init__ *)

\* a variant of line 29: assert token or username or password
CredentialsOk_any(t, u, p) == Truthy(t) \/ Truthy(u) \/ Truthy(p)

\* line 29: assert (token) or (username and password)
CredentialsOk(t, u, p) == Truthy(t) \/ (Truthy(u) /\ Truthy(p))

\* lines 31-32: while host[-1] == '/': host = host[:-1]
RECURSIVE StripSlashes(_)
StripSlashes(h) ==
    IF Len(h) = 0 THEN IndexError
    ELSE IF h[Len(h)] = "/" THEN StripSlashes(SubSeq(h, 1, Len(h) - 1))
    ELSE h

\* line 33: f'{host}:{port}'
HostPort(h, port) == h \o <<":">> \o port

\* the record kept of the most recent call of the caller
Call(op, args, outcome, response) ==
    [op |-> op, args |-> args, outcome |-> outcome, response |-> response]

Init ==
    /\ ctor = "none"
    /\ host = None
    /\ token = None
    /\ username = None
    /\ password = None
    /\ suppliedToken = None
    /\ call = Call("none", << >>, "none", NoResponse)
    /\ entries = 0
    /\ loginPosts = 0
    /\ phase = "Idle"
    /\ uri = None
    /\ params = {}
    /\ results = << >>
    /\ returned = NoReturn
    /\ gets = << >>
    /\ pages = << >>

Construct(h, port, t, u, p) ==
    /\ ctor = "none"
    /\ suppliedToken' = t
    /\ IF CredentialsOk(t, u, p) /\ StripSlashes(h) # IndexError
       THEN /\ ctor' = "ok"
            /\ host' = HostPort(StripSlashes(h), port)
            /\ token' = t
            /\ username' = u
            /\ password' = p
            /\ call' = Call("__init__", <<h, port, t, u, p>>, "returned",
                         NoResponse)
       ELSE /\ ctor' = "failed"
            /\ UNCHANGED <<host, token, username, password>>
            /\ call' = Call("__init__", <<h, port, t, u, p>>, "raised",
                         NoResponse)
    /\ UNCHANGED <<entries, loginPosts>>
    /\ UNCHANGED collection

---------------------------------------------------------------------------
(* __enter__, __exit__, _get_token *)

\* a variant of line 39: the login is run on every entry
NeedsLogin_always(tok) == TRUE

\* line 39: if not self.token
NeedsLogin(tok) == ~Truthy(tok)

\* lines 66-68: _get_token raises when requests.post raises, when the body
\* is not JSON, or when the decoded body has no 'token'; the status is not
\* looked at
GetTokenRaises(r) == r.kind = "neterr" \/ ~r.json \/ ~r.hasToken

\* line 68: return res['token']
GetTokenValue(r) == r.tok

\* the locals of _collect_results exist only while an accessor call is the
\* most recent call; any other call leaves no collection behind
NoCollect ==
    /\ phase' = "Idle"
    /\ uri' = None
    /\ params' = {}
    /\ results' = << >>
    /\ returned' = NoReturn
    /\ gets' = << >>
    /\ pages' = << >>

Enter ==
    /\ ctor = "ok"
    /\ phase # "Fetching"
    /\ entries < MaxEntries
    /\ entries' = entries + 1
    /\ IF NeedsLogin(token)
       THEN \E r \in LoginResponses :
              /\ loginPosts' = loginPosts + 1
              /\ IF GetTokenRaises(r)
                 THEN /\ token' = token
                      /\ call' = Call("__enter__", << >>, "raised", r)
                 ELSE /\ token' = GetTokenValue(r)
                      /\ call' = Call("__enter__", << >>, "returned", r)
       ELSE /\ UNCHANGED <<token, loginPosts>>
            /\ call' = Call("__enter__", << >>, "returned", NoResponse)
    /\ UNCHANGED <<ctor, host, username, password, suppliedToken>>
    /\ NoCollect

Exit ==
    /\ ctor = "ok"
    /\ phase # "Fetching"
    /\ call' = Call("__exit__", << >>, "returned", NoResponse)
    /\ UNCHANGED <<entries, loginPosts>>
    /\ UNCHANGED session
    /\ NoCollect

---------------------------------------------------------------------------
(* _set_request_params, _get *)

\* lines 51-53: the three headers every GET carries
RequestHeaders(tok) ==
    [Accept |-> <<"application/json; version=1.0">>,
     ContentType |-> <<"application/json">>,
     Authorization |-> <<"Token ">> \o Format(tok)]

\* a variant of line 59: the status is never looked at
RaiseForStatus_never(status) == FALSE

\* line 59: res.raise_for_status() raises for 4xx and 5xx
RaiseForStatus(status) == status >= 400 /\ status < 600

\* lines 58-59: _get raises when requests.get raises or the status is bad
GetRaises(r) == r.kind = "neterr" \/ RaiseForStatus(r.status)

---------------------------------------------------------------------------
(* _collect_results *)

\* line 75: res.json() raises when the body is not JSON
JsonRaises(r) == ~r.json

\* line 76: res['results'] raises KeyError when the key is missing
ResultsKeyRaises(r) == ~r.hasResults

\* a variant of line 76: results = res['results'] + results
Accumulate_prepend(acc, page) == page \o acc

\* line 76: results += res['results']
Accumulate(acc, page) == acc \o page

\* a variant of line 77: res.get('next'), which never raises
NextKeyRaises_lenient(r) == FALSE

\* line 77: res['next'] raises KeyError when the key is missing
NextKeyRaises(r) == ~r.hasNext

\* line 77: if res['next']
FollowNext(r) == Truthy(r.next)

\* a variant of line 74: params = {} once a link has been followed
NextParams_cleared(p) == {}

\* line 74: the `params` passed to the GET of the following iteration;
\* the loop never assigns `params`
NextParams(p) == p

\* lines 70-71: entry of _collect_results(uri, params)
StartCollect(op, args, u, p) ==
    /\ phase' = "Fetching"
    /\ uri' = u
    /\ params' = p
    /\ results' = << >>
    /\ returned' = NoReturn
    /\ gets' = << >>
    /\ pages' = << >>
    /\ call' = Call(op, args, "pending", NoResponse)

\* an accessor that raises before it reaches _collect_results
FailBeforeCollect(op, args) ==
    /\ NoCollect
    /\ call' = Call(op, args, "raised", NoResponse)

\* lines 73-80: one iteration of the loop
FetchPage ==
    /\ phase = "Fetching"
    /\ Len(gets) < MaxGets
    /\ \E r \in PageResponses :
         /\ gets' = Append(gets, [uri |-> uri, params |-> params,
                                  headers |-> RequestHeaders(token)])
         /\ pages' = Append(pages, r)
         /\ IF GetRaises(r) \/ JsonRaises(r) \/ ResultsKeyRaises(r)
            THEN /\ phase' = "Failed"
                 /\ call' = [call EXCEPT !.outcome = "raised"]
                 /\ UNCHANGED <<uri, params, results, returned>>
            ELSE /\ results' = Accumulate(results, r.res)
                 /\ IF NextKeyRaises(r)
                    THEN /\ phase' = "Failed"
                         /\ call' = [call EXCEPT !.outcome = "raised"]
                         /\ UNCHANGED <<uri, params, returned>>
                    ELSE IF FollowNext(r)
                    THEN /\ phase' = "Fetching"
                         /\ uri' = r.next
                         /\ params' = NextParams(params)
                         /\ UNCHANGED <<call, returned>>
                    ELSE /\ phase' = "Exhausted"
                         /\ returned' = results'
                         /\ call' = [call EXCEPT !.outcome = "returned"]
                         /\ UNCHANGED <<uri, params>>
    /\ UNCHANGED <<entries, loginPosts>>
    /\ UNCHANGED session

---------------------------------------------------------------------------
(* accessors *)

\* line 96: f'{self.host}/api/locations'
LocationsUri(h) == h \o <<"/api/locations">>

\* line 70: the default value of `params`
DefaultParams == {}

\* lines 96-97
GetLocations ==
    /\ ctor = "ok"
    /\ phase # "Fetching"
    /\ StartCollect("get_locations", << >>, LocationsUri(host), DefaultParams)
    /\ UNCHANGED <<entries, loginPosts>>
    /\ UNCHANGED session

\* a variant of line 122: no assertion
SystemsArgsOk_unchecked(system_id, search) == TRUE

\* line 122: assert not (system_id and search)
SystemsArgsOk(system_id, search) == ~(Truthy(system_id) /\ Truthy(search))

\* line 123: f'{self.host}/api/systems'
SystemsUri(h) == h \o <<"/api/systems">>

\* lines 124-129: the parameter mapping, as a set of <<key, value>> pairs
SystemsParams(system_id, search) ==
    IF Truthy(system_id) THEN {<<"system_id", system_id>>}
    ELSE IF Truthy(search) THEN {<<"search", search>>}
    ELSE {}

\* lines 122-131
GetSystems(system_id, search) ==
    /\ ctor = "ok"
    /\ phase # "Fetching"
    /\ IF SystemsArgsOk(system_id, search)
       THEN StartCollect("get_systems", <<system_id, search>>,
                         SystemsUri(host), SystemsParams(system_id, search))
       ELSE FailBeforeCollect("get_systems", <<system_id, search>>)
    /\ UNCHANGED <<entries, loginPosts>>
    /\ UNCHANGED session

---------------------------------------------------------------------------
(* The caller *)

Next ==
    \/ \E h \in HostArgs, port \in PortArgs, t \in TokenArgs,
          u \in UsernameArgs, p \in PasswordArgs : Construct(h, port, t, u, p)
    \/ Enter
    \/ Exit
    \/ GetLocations
    \/ \E system_id \in FilterArgs, search \in FilterArgs :
          GetSystems(system_id, search)
    \/ FetchPage

Spec == Init /\ [][Next]_vars

---------------------------------------------------------------------------
(* Vocabulary of the properties, taken from the wording of the contract    *)
(* and not from the operators above                                        *)

\* an argument or a field counts as supplied when it is neither None nor ''
Supplied(x) == x # None /\ x # EmptyStr

\* a non-null `next` is the absolute URI of the following page
IsLink(n) == n # None /\ n # EmptyStr

SuccessStatus(status) == status >= 200 /\ status <= 299

\* the GET failed: transport error, non-success status, undecodable body,
\* or a body without `results` or without `next`
PageFailed(r) ==
    \/ r.kind = "neterr"
    \/ ~SuccessStatus(r.status)
    \/ ~r.json
    \/ ~r.hasResults
    \/ ~r.hasNext

\* the login exchange failed: transport error, non-success status,
\* undecodable body, or a body without `token`
LoginFailed(r) ==
    \/ r.kind = "neterr"
    \/ ~SuccessStatus(r.status)
    \/ ~r.json
    \/ ~r.hasToken

RECURSIVE ConcatResults(_)
ConcatResults(ps) ==
    IF ps = << >> THEN << >>
    ELSE ConcatResults(SubSeq(ps, 1, Len(ps) - 1)) \o ps[Len(ps)].res

\* pages 1..N-1 are successful and carry a link, page N is successful and
\* carries a null `next`
IsChain(ps) ==
    /\ Len(ps) >= 1
    /\ \A i \in 1..Len(ps) : ~PageFailed(ps[i])
    /\ \A i \in 1..(Len(ps) - 1) : IsLink(ps[i].next)
    /\ ps[Len(ps)].next = None

\* every page so far is successful and carries a link
IsOpenChain(ps) ==
    \A i \in 1..Len(ps) : ~PageFailed(ps[i]) /\ IsLink(ps[i].next)

TokenSession == ctor = "ok" /\ Supplied(suppliedToken)
PasswordSession == ctor = "ok" /\ ~Supplied(suppliedToken)
NoTokenSession == ctor = "ok" /\ suppliedToken = None

AccessorUris == {host \o <<"/api/locations">>, host \o <<"/api/systems">>}

---------------------------------------------------------------------------
(* C1: against a chain of N >= 1 successful pages, _collect_results issues *)
(* exactly N GETs, the first to the accessor's URI and each later one to   *)
(* the `next` of the page before it, and returns the concatenation of the  *)
(* pages' `results` in page order; while the chain is still open the       *)
(* accumulator holds the concatenation of the pages fetched so far.        *)
C1_ChainCollected ==
    /\ IsChain(pages) =>
         /\ phase = "Exhausted"
         /\ Len(gets) = Len(pages)
         /\ gets[1].uri \in AccessorUris
         /\ \A i \in 2..Len(gets) : gets[i].uri = pages[i - 1].next
         /\ returned = ConcatResults(pages)
    /\ (pages # << >> /\ IsOpenChain(pages)) =>
         /\ phase = "Fetching"
         /\ Len(gets) = Len(pages)
         /\ results = ConcatResults(pages)
         /\ returned = NoReturn

C1_Witness ==
    /\ IsChain(pages)
    /\ Len(pages) >= 3
    /\ Len(returned) >= 2
    /\ returned[1] # returned[2]

---------------------------------------------------------------------------
(* C2 as stated: for a session built from username and password, once the *)
(* session has been entered exactly one login POST has been issued in      *)
(* total, whatever was called since.                                       *)
C2_ExactlyOneLogin ==
    (NoTokenSession /\ entries >= 1) => loginPosts = 1

(* C2 as amended: for a session built from username and password, a login  *)
(* POST is issued only by a session entry that finds the token unset, one  *)
(* POST per such entry, the first entry always issues one, and once a      *)
(* non-empty token is stored no call issues a login POST or changes the    *)
(* token.                                                                  *)
C2_LoginOnlyWhileTokenUnset ==
    [][PasswordSession =>
         /\ loginPosts' # loginPosts =>
              /\ call'.op = "__enter__"
              /\ entries' = entries + 1
              /\ ~Supplied(token)
              /\ loginPosts' = loginPosts + 1
         /\ (entries = 0 /\ entries' = 1) => loginPosts' = 1
         /\ Supplied(token) => (loginPosts' = loginPosts /\ token' = token)
      ]_vars

C2_Witness ==
    /\ PasswordSession
    /\ entries >= 2
    /\ loginPosts = 1
    /\ Supplied(token)
    /\ phase = "Exhausted"
    /\ gets[1].headers.Authorization = <<"Token ">> \o token

---------------------------------------------------------------------------
(* C3: for a session built with a pre-supplied token no login POST is ever *)
(* issued and the session's token always equals the supplied value.        *)
C3_SuppliedTokenKept ==
    TokenSession => (loginPosts = 0 /\ token = suppliedToken)

C3_Witness ==
    /\ TokenSession
    /\ entries >= 2
    /\ Len(gets) >= 2
    /\ phase = "Exhausted"

---------------------------------------------------------------------------
(* C4: when a GET of the page sequence fails, it is the last request of    *)
(* the collection, the accessor raises, and nothing is returned, whatever  *)
(* the pages before it carried.                                            *)
C4_FailsAtomically ==
    \A i \in DOMAIN pages :
        PageFailed(pages[i]) =>
            /\ i = Len(pages)
            /\ Len(gets) = Len(pages)
            /\ phase = "Failed"
            /\ returned = NoReturn
            /\ call.op \in {"get_locations", "get_systems"}
            /\ call.outcome = "raised"

C4_Witness ==
    /\ Len(pages) >= 2
    /\ PageFailed(pages[Len(pages)])
    /\ pages[1].res # << >>
    /\ phase = "Failed"

---------------------------------------------------------------------------
(* C5 as stated: with a usable host, construction succeeds if and only if  *)
(* exactly one credential form is supplied: a token alone, or a username   *)
(* and a password alone.                                                   *)
HostUsable(h) == \E i \in DOMAIN h : h[i] # "/"

ExactlyOneForm(t, u, p) ==
    \/ Supplied(t) /\ ~Supplied(u) /\ ~Supplied(p)
    \/ ~Supplied(t) /\ Supplied(u) /\ Supplied(p)

C5_ExactlyOneForm ==
    (call.op = "__init__" /\ HostUsable(call.args[1])) =>
        /\ call.outcome = "returned" <=>
               ExactlyOneForm(call.args[3], call.args[4], call.args[5])
        /\ loginPosts = 0
        /\ gets = << >>

(* C5 as amended: construction succeeds if and only if the host has a      *)
(* character other than '/' and at least one credential form is supplied:  *)
(* a token, or a username together with a password; both forms together    *)
(* are accepted.  Construction issues no network call.                     *)
AtLeastOneForm(t, u, p) == Supplied(t) \/ (Supplied(u) /\ Supplied(p))

C5_AtLeastOneForm ==
    call.op = "__init__" =>
        /\ call.outcome = "returned" <=>
               /\ HostUsable(call.args[1])
               /\ AtLeastOneForm(call.args[3], call.args[4], call.args[5])
        /\ call.outcome = "returned" <=> ctor = "ok"
        /\ call.outcome = "raised" <=> ctor = "failed"
        /\ loginPosts = 0
        /\ gets = << >>

C5_Witness ==
    /\ call.op = "__init__"
    /\ ctor = "ok"
    /\ Supplied(call.args[3])
    /\ Supplied(call.args[4])
    /\ Supplied(call.args[5])

---------------------------------------------------------------------------
(* C6: when the login exchange fails (transport error, non-success status, *)
(* undecodable body or body without `token`), __enter__ raises and the     *)
(* session's token is unset afterwards.                                    *)
C6_FailedLoginLeavesTokenUnset ==
    (NoTokenSession /\ call.op = "__enter__" /\ call.response # NoResponse
        /\ LoginFailed(call.response)) =>
        /\ call.outcome = "raised"
        /\ ~Supplied(token)

---------------------------------------------------------------------------
(* C7: get_systems with both system_id and search supplied raises without  *)
(* issuing a request; otherwise the parameter mapping, and the mapping of  *)
(* the request, holds exactly the supplied filter and nothing else.        *)
SuppliedFilters(system_id, search) ==
    {<<"system_id", system_id>> : x \in IF Supplied(system_id) THEN {1} ELSE {}}
    \cup {<<"search", search>> : x \in IF Supplied(search) THEN {1} ELSE {}}

C7_SystemsFilters ==
    call.op = "get_systems" =>
        IF Supplied(call.args[1]) /\ Supplied(call.args[2])
        THEN /\ call.outcome = "raised"
             /\ phase = "Idle"
             /\ gets = << >>
        ELSE /\ phase # "Idle"
             /\ params = SuppliedFilters(call.args[1], call.args[2])
             /\ Cardinality(params) <= 1
             /\ gets # << >> =>
                    gets[1].params = SuppliedFilters(call.args[1], call.args[2])

C7_Witness ==
    /\ call.op = "get_systems"
    /\ Supplied(call.args[1])
    /\ Supplied(call.args[2])
    /\ call.outcome = "raised"
    /\ entries >= 1

---------------------------------------------------------------------------
(* C8 as stated: every GET after the first of a collection carries an      *)
(* empty parameter mapping.                                                *)
C8_ParamsCleared ==
    \A i \in 2..Len(gets) : gets[i].params = {}

(* C8 as amended: every GET of a collection carries the accessor's         *)
(* parameter mapping, the GETs sent to a `next` URI included; the mapping  *)
(* is never cleared.                                                       *)
C8_ParamsResent ==
    \A i \in 1..Len(gets) :
        /\ gets[i].params = gets[1].params
        /\ gets[i].params = params
        /\ i >= 2 => gets[i].uri = pages[i - 1].next
        /\ call.op = "get_systems" =>
               gets[i].params = SuppliedFilters(call.args[1], call.args[2])

C8_Witness ==
    /\ Len(gets) >= 3
    /\ gets[3].params # {}
    /\ gets[3].uri = pages[2].next

---------------------------------------------------------------------------
(* C9 as stated: from Fetching, an executor error moves to Failed, a page  *)
(* with a non-null `next` stays in Fetching, and a page whose `next` is    *)
(* null or absent moves to Exhausted and returns the accumulated sequence. *)
ExecutorError(r) ==
    r.kind = "neterr" \/ ~SuccessStatus(r.status) \/ ~r.json \/ ~r.hasResults

Fetched == phase = "Fetching" /\ Len(pages') = Len(pages) + 1

C9_AbsentNextExhausts ==
    [][Fetched =>
         LET r == pages'[Len(pages')] IN
         IF ExecutorError(r) THEN phase' = "Failed"
         ELSE IF r.hasNext /\ IsLink(r.next) THEN phase' = "Fetching"
         ELSE phase' = "Exhausted" /\ returned' = results'
      ]_vars

(* C9 as amended: from Fetching, an executor error or a page without a     *)
(* `next` field moves to Failed, a page with a non-null `next` stays in    *)
(* Fetching, and a page whose `next` is null (or empty) moves to Exhausted *)
(* and returns the accumulated sequence; Exhausted and Failed are          *)
(* terminal: no further page is fetched until another accessor is called. *)
C9_PageLoopTransitions ==
    [][/\ Fetched =>
            LET r == pages'[Len(pages')] IN
            IF ExecutorError(r) \/ ~r.hasNext
            THEN phase' = "Failed" /\ returned' = NoReturn
            ELSE IF IsLink(r.next)
            THEN phase' = "Fetching" /\ returned' = NoReturn
            ELSE phase' = "Exhausted" /\ returned' = results'
       /\ phase \in {"Exhausted", "Failed"} =>
            \/ phase' = phase /\ pages' = pages /\ gets' = gets
                 /\ returned' = returned
            \/ call'.outcome # "pending"
                 /\ phase' = "Idle" /\ pages' = << >> /\ gets' = << >>
            \/ call'.op \in {"get_locations", "get_systems"}
                 /\ phase' = "Fetching" /\ pages' = << >> /\ gets' = << >>
       /\ (phase = "Fetching" /\ phase' # "Fetching") => Fetched
      ]_vars

C9_Witness ==
    /\ phase = "Failed"
    /\ Len(pages) >= 2
    /\ pages[Len(pages)].kind = "http"
    /\ ~ExecutorError(pages[Len(pages)])
    /\ ~pages[Len(pages)].hasNext

---------------------------------------------------------------------------
(* C10: every GET carries `Authorization: Token <t>` with <t> the resolved *)
(* token of the session, and a session built from username and password    *)
(* issues no GET before a login POST has stored its token.                 *)
C10_GetsCarryResolvedToken ==
    \A i \in DOMAIN gets :
        /\ TokenSession =>
               gets[i].headers.Authorization = <<"Token ">> \o suppliedToken
        /\ NoTokenSession =>
               /\ loginPosts >= 1
               /\ Supplied(token)
               /\ gets[i].headers.Authorization = <<"Token ">> \o token

===========================================================================
